---- MODULE Spec2Model ----
(***************************************************************************)
(* The export pipeline of the configuration editor: the ConfigForm         *)
(* component (value mapping, schema reset, exports) and its C header       *)
(* generator with the HTML escaping and highlighting passes.               *)
(*                                                                         *)
(* Text is modelled as a sequence of one-character strings, so that every  *)
(* replace() of the source is a real rewriting of characters.              *)
(***************************************************************************)
EXTENDS Integers, Sequences, FiniteSets, TLC

VARIABLES schema, variantName, values, showPreview, lines, preview, download, last

vars == <<schema, variantName, values, showPreview, lines, preview, download, last>>

(***************************************************************************)
(* Characters and generic text helpers                                     *)
(***************************************************************************)
Letters ==
    {"a", "b", "c", "d", "e", "f", "g", "h", "i", "j", "k", "l", "m",
     "n", "o", "p", "q", "r", "s", "t", "u", "v", "w", "x", "y", "z",
     "A", "B", "C", "D", "E", "F", "G", "H", "I", "J", "K", "L", "M",
     "N", "O", "P", "Q", "R", "S", "T", "U", "V", "W", "X", "Y", "Z"}

Digits == {"0", "1", "2", "3", "4", "5", "6", "7", "8", "9"}

\* \w of a JavaScript regular expression
WordChars == Letters \cup Digits \cup {"_"}

NL == "\n"

RECURSIVE Cat(_, _, _)
\* f[lo] \o f[lo+1] \o ... \o f[hi]
Cat(f, lo, hi) ==
    IF lo > hi THEN <<>>
    ELSE IF lo = hi THEN f[lo]
    ELSE LET m == (lo + hi) \div 2
         IN  Cat(f, lo, m) \o Cat(f, m + 1, hi)

Min(S) == CHOOSE x \in S : \A y \in S : x <= y

\* does text s hold the text p at position i
At(s, i, p) == /\ i >= 1
               /\ i + Len(p) - 1 <= Len(s)
               /\ SubSeq(s, i, i + Len(p) - 1) = p

Contains(s, p) == \E i \in 1..(Len(s) - Len(p) + 1) : At(s, i, p)

RECURSIVE Sorted(_)
\* the elements of a finite set of integers, ascending
Sorted(S) == IF S = {} THEN <<>> ELSE <<Min(S)>> \o Sorted(S \ {Min(S)})

\* s with the character at every position i of marks replaced by piece[i]
Splice(s, marks, piece) ==
    LET ms == Sorted(marks)
        k == Len(ms)
        from(j) == IF j = 1 THEN 1 ELSE ms[j - 1] + 1
    IN  Cat([j \in 1..(k + 1) |->
                IF j <= k THEN SubSeq(s, from(j), ms[j] - 1) \o piece[ms[j]]
                ELSE SubSeq(s, from(j), Len(s))], 1, k + 1)

\* String.prototype.replace(/c/g, rep) for a one-character pattern c
ReplaceChar(s, c, rep) ==
    LET hits == {i \in 1..Len(s) : s[i] = c}
    IN  Splice(s, hits, [i \in hits |-> rep])

\* Array.prototype.join('\n')
Join(ls) ==
    Cat([i \in 1..Len(ls) |-> IF i = 1 THEN ls[i] ELSE <<NL>> \o ls[i]], 1, Len(ls))

\* s with open inserted before every position of starts and close after every
\* position of ends: the effect of replace(re, open + '$1' + close) for matches
\* that start at starts and end at ends
Wrap(s, starts, ends, open, close) ==
    LET piece(i) == (IF i \in starts THEN open ELSE <<>>) \o <<s[i]>>
                        \o (IF i \in ends THEN close ELSE <<>>)
    IN  Splice(s, starts \cup ends, [i \in starts \cup ends |-> piece(i)])

(***************************************************************************)
(* JavaScript values: null, undefined, booleans, numbers, strings          *)
(***************************************************************************)
Null == [t |-> "null", b |-> FALSE, n |-> 0, s |-> <<>>]
Undefined == [t |-> "undefined", b |-> FALSE, n |-> 0, s |-> <<>>]
Bool(x) == [t |-> "boolean", b |-> x, n |-> 0, s |-> <<>>]
Num(x) == [t |-> "number", b |-> FALSE, n |-> x, s |-> <<>>]
Str(x) == [t |-> "string", b |-> FALSE, n |-> 0, s |-> x]

DigitChar(d) == <<"0", "1", "2", "3", "4", "5", "6", "7", "8", "9">>[d + 1]

RECURSIVE NatToStr(_)
NatToStr(n) == IF n < 10 THEN <<DigitChar(n)>>
               ELSE NatToStr(n \div 10) \o <<DigitChar(n % 10)>>

\* String(v) and `${v}`
ToStr(v) ==
    CASE v.t = "null" -> <<"n", "u", "l", "l">>
      [] v.t = "undefined" -> <<"u", "n", "d", "e", "f", "i", "n", "e", "d">>
      [] v.t = "boolean" -> IF v.b THEN <<"t", "r", "u", "e">> ELSE <<"f", "a", "l", "s", "e">>
      [] v.t = "number" -> IF v.n < 0 THEN <<"-">> \o NatToStr(0 - v.n) ELSE NatToStr(v.n)
      [] v.t = "string" -> v.s

\* the truthiness test of `v ? 1 : 0`
Truthy(v) ==
    CASE v.t = "null" -> FALSE
      [] v.t = "undefined" -> FALSE
      [] v.t = "boolean" -> v.b
      [] v.t = "number" -> v.n # 0
      [] v.t = "string" -> v.s # <<>>

\* `x ?? null`
OrNull(v) == IF v.t \in {"null", "undefined"} THEN Null ELSE v

(***************************************************************************)
(* Objects keep their keys in insertion order: an object is a sequence of  *)
(* [key, val] entries with distinct keys (no key of the model is an        *)
(* integer index, which JavaScript would order first).                     *)
(***************************************************************************)
ObjectKeys(o) == [i \in 1..Len(o) |-> o[i].key]
KeySet(o) == {o[i].key : i \in 1..Len(o)}
HasKey(o, k) == \E i \in 1..Len(o) : o[i].key = k
Get(o, k) == o[CHOOSE i \in 1..Len(o) : o[i].key = k].val

\* { ...prev, [key]: v }
Set(o, k, v) ==
    IF HasKey(o, k)
    THEN [i \in 1..Len(o) |-> IF o[i].key = k THEN [key |-> k, val |-> v] ELSE o[i]]
    ELSE Append(o, [key |-> k, val |-> v])

\* A schema is an object whose values are descriptors [type, default];
\* default = Undefined when the descriptor declares none.
Descriptor(type, def) == [type |-> type, default |-> def]

(***************************************************************************)
(* isValidCIdentifier, escapeHtml                                          *)
(***************************************************************************)
\* the test without its anchors: /[a-zA-Z_][a-zA-Z0-9_]*/.test(name)
isValidCIdentifier_Unanchored(name) ==
    \E i \in 1..Len(name) : name[i] \in Letters \cup {"_"}

\* /^[a-zA-Z_][a-zA-Z0-9_]*$/.test(name)
isValidCIdentifier(name) ==
    /\ Len(name) >= 1
    /\ name[1] \in Letters \cup {"_"}
    /\ \A i \in 2..Len(name) : name[i] \in WordChars

\* escapeHtml without its replace(/</g, '&lt;')
escapeHtml_NoLt(text) ==
    LET a == ReplaceChar(text, "&", <<"&", "a", "m", "p", ";">>)
        c == ReplaceChar(a, ">", <<"&", "g", "t", ";">>)
        d == ReplaceChar(c, "\"", <<"&", "q", "u", "o", "t", ";">>)
    IN  ReplaceChar(d, "'", <<"&", "#", "3", "9", ";">>)

escapeHtml(text) ==
    LET a == ReplaceChar(text, "&", <<"&", "a", "m", "p", ";">>)
        b == ReplaceChar(a, "<", <<"&", "l", "t", ";">>)
        c == ReplaceChar(b, ">", <<"&", "g", "t", ";">>)
        d == ReplaceChar(c, "\"", <<"&", "q", "u", "o", "t", ";">>)
    IN  ReplaceChar(d, "'", <<"&", "#", "3", "9", ";">>)

(***************************************************************************)
(* generateCHeader: the lines of the header                                *)
(***************************************************************************)
\* the two replacements in the other order: the backslash of \" is doubled
EscapeCString_QuoteFirst(s) ==
    ReplaceChar(ReplaceChar(s, "\"", <<"\\", "\"">>), "\\", <<"\\", "\\">>)

\* String(val).replace(/\\/g, '\\\\').replace(/"/g, '\\"')
EscapeCString(s) ==
    ReplaceChar(ReplaceChar(s, "\\", <<"\\", "\\">>), "\"", <<"\\", "\"">>)

\* the text after `#define k ` for a value of a descriptor of the given type
Encode(type, val) ==
    IF type = "boolean" THEN (IF Truthy(val) THEN <<"1">> ELSE <<"0">>)
    ELSE IF type = "string" THEN <<"\"">> \o EscapeCString(ToStr(val)) \o <<"\"">>
    ELSE ToStr(val)

DefineLine(k, text) == <<"#", "d", "e", "f", "i", "n", "e", " ">> \o k \o <<" ">> \o text

IfndefLine(k) == <<"#", "i", "f", "n", "d", "e", "f", " ">> \o k

EndifLine == <<"#", "e", "n", "d", "i", "f">>

\* props.variantName || 'variant'
NameOrDefault(name) == IF name = <<>> THEN <<"v", "a", "r", "i", "a", "n", "t">> ELSE name

Preamble(name) ==
    << <<"#", "p", "r", "a", "g", "m", "a", " ", "o", "n", "c", "e">>,
       <<"/", "/", " ", "A", "u", "t", "o", "-", "g", "e", "n", "e", "r", "a", "t", "e", "d", " ", "h", "e", "a", "d", "e", "r", " ", "f", "r", "o", "m", " ", "C", "o", "n", "f", "i", "g", " ", "E", "d", "i", "t", "o", "r">>,
       <<"/", "/", " ", "V", "a", "r", "i", "a", "n", "t", ":", " ">> \o escapeHtml(NameOrDefault(name)),
       <<>>,
       <<"/", "/", " ", "V", "a", "r", "i", "a", "n", "t", "-", "s", "p", "e", "c", "i", "f", "i", "c", " ", "d", "e", "f", "i", "n", "e", "s", " ", "(", "h", "i", "g", "h", "e", "s", "t", " ", "p", "r", "i", "o", "r", "i", "t", "y", ")">> >>

\* the forEach over Object.keys(v)
Tier1Entry(s, e) ==
    IF ~isValidCIdentifier(e.key) THEN <<>>
    ELSE IF ~HasKey(s, e.key) THEN <<>>
    ELSE << DefineLine(e.key, Encode(Get(s, e.key).type, e.val)) >>

Tier1Lines(s, v) == Cat([i \in 1..Len(v) |-> Tier1Entry(s, v[i])], 1, Len(v))

\* `if (def)` in place of `if (def !== undefined)`
Tier2Entry_Truthy(e) ==
    IF ~Truthy(e.val.default) THEN <<>>
    ELSE IF ~isValidCIdentifier(e.key) THEN <<>>
    ELSE << IfndefLine(e.key),
            DefineLine(e.key, Encode(e.val.type, e.val.default)),
            EndifLine >>

\* the forEach over Object.keys(props.schema)
Tier2Entry(e) ==
    IF e.val.default.t = "undefined" THEN <<>>
    ELSE IF ~isValidCIdentifier(e.key) THEN <<>>
    ELSE << IfndefLine(e.key),
            DefineLine(e.key, Encode(e.val.type, e.val.default)),
            EndifLine >>

Tier2Lines(s) == Cat([i \in 1..Len(s) |-> Tier2Entry(s[i])], 1, Len(s))

Tier2Header ==
    << <<>>,
       <<"/", "/", " ", "C", "o", "m", "m", "o", "n", " ", "d", "e", "f", "a", "u", "l", "t", "s", " ", "(", "o", "n", "l", "y", " ", "a", "p", "p", "l", "i", "e", "d", " ", "i", "f", " ", "n", "o", "t", " ", "d", "e", "f", "i", "n", "e", "d", " ", "b", "y", " ", "v", "a", "r", "i", "a", "n", "t", ")">> >>

\* the defaults emitted before the defines of the variant
HeaderLines_DefaultsFirst(s, v, name) ==
    Preamble(name) \o Tier2Lines(s) \o Tier2Header \o Tier1Lines(s, v)

\* the array `lines` when it is joined
HeaderLines(s, v, name) ==
    Preamble(name) \o Tier1Lines(s, v) \o Tier2Header \o Tier2Lines(s)

\* const raw = lines.join('\n')
RawHeader(s, v, name) == Join(HeaderLines(s, v, name))

(***************************************************************************)
(* generateCHeader: the highlighting passes over the escaped text          *)
(***************************************************************************)
SpanComment == <<"<", "s", "p", "a", "n", " ", "c", "l", "a", "s", "s", "=", "\"", "c", "o", "m", "m", "e", "n", "t", "\"", ">">>
SpanKeyword == <<"<", "s", "p", "a", "n", " ", "c", "l", "a", "s", "s", "=", "\"", "k", "e", "y", "w", "o", "r", "d", "\"", ">">>
SpanString == <<"<", "s", "p", "a", "n", " ", "c", "l", "a", "s", "s", "=", "\"", "s", "t", "r", "i", "n", "g", "\"", ">">>
SpanNumber == <<"<", "s", "p", "a", "n", " ", "c", "l", "a", "s", "s", "=", "\"", "n", "u", "m", "b", "e", "r", "\"", ">">>
SpanClose == <<"<", "/", "s", "p", "a", "n", ">">>

\* .replace(/(\/\/.*$)/gm, '<span class="comment">$1</span>')
CommentPass(s) ==
    LET n == Len(s)
        slash == {i \in 1..(n - 1) : s[i] = "/" /\ s[i + 1] = "/"}
        nls == {i \in 1..n : s[i] = NL}
        \* the leftmost // of its line: .* has eaten every later one
        starts == {i \in slash : \A j \in slash :
                                    j < i => \E p \in nls : j < p /\ p < i}
        eol(i) == Min({p \in nls : p > i} \cup {n + 1}) - 1
        ends == {eol(i) : i \in starts}
    IN  Wrap(s, starts, ends, SpanComment, SpanClose)

Keywords == { <<"#", "p", "r", "a", "g", "m", "a">>,
              <<"#", "d", "e", "f", "i", "n", "e">>,
              <<"#", "i", "f", "n", "d", "e", "f">>,
              <<"#", "e", "n", "d", "i", "f">> }

\* .replace(/(#pragma|#define|#ifndef|#endif)/gm, '<span class="keyword">$1</span>')
KeywordPass(s) ==
    LET n == Len(s)
        hash == {i \in 1..n : s[i] = "#"}
        hits == {<<i, k>> \in hash \X Keywords : At(s, i, k)}
        starts == {h[1] : h \in hits}
        ends == {h[1] + Len(h[2]) - 1 : h \in hits}
    IN  Wrap(s, starts, ends, SpanKeyword, SpanClose)

Quot == <<"&", "q", "u", "o", "t", ";">>

RECURSIVE StringMatches(_, _, _, _)
\* the matches <<first, last>> of /&quot;([^&]*)&quot;/g found from position
\* `from` on; amps are the positions of &, quots those of &quot;
StringMatches(amps, quots, n, from) ==
    LET cand == {q \in quots : q >= from}
    IN  IF cand = {} THEN {}
        ELSE LET i == Min(cand)
                 rest == {a \in amps : a >= i + Len(Quot)}
             IN  IF rest # {} /\ Min(rest) \in quots
                 THEN {<<i, Min(rest) + Len(Quot) - 1>>}
                         \cup StringMatches(amps, quots, n, Min(rest) + Len(Quot))
                 ELSE StringMatches(amps, quots, n, i + 1)

\* .replace(/&quot;([^&]*)&quot;/gm, '<span class="string">&quot;$1&quot;</span>')
StringPass(s) ==
    LET n == Len(s)
        amps == {i \in 1..n : s[i] = "&"}
        quots == {i \in amps : At(s, i, Quot)}
        ms == StringMatches(amps, quots, n, 1)
    IN  Wrap(s, {m[1] : m \in ms}, {m[2] : m \in ms}, SpanString, SpanClose)

RECURSIVE RunEnd(_, _)
\* the last position of the run of digits that starts at i
RunEnd(s, i) == IF i < Len(s) /\ s[i + 1] \in Digits THEN RunEnd(s, i + 1) ELSE i

\* .replace(/\b(\d+)\b/gm, '<span class="number">$1</span>')
NumberPass(s) ==
    LET n == Len(s)
        \* \b before a digit: the start of the text or a non-word character
        heads == {i \in 1..n : s[i] \in Digits /\ (i = 1 \/ s[i - 1] \notin WordChars)}
        \* \b after the greedy run: the end of the text or a non-word character
        starts == {i \in heads : LET j == RunEnd(s, i)
                                 IN  j = n \/ s[j + 1] \notin WordChars}
        ends == {RunEnd(s, i) : i \in starts}
    IN  Wrap(s, starts, ends, SpanNumber, SpanClose)

Highlight(raw) == NumberPass(StringPass(KeywordPass(CommentPass(escapeHtml(raw)))))

\* the return value of generateCHeader()
generateCHeader(s, v, name) == Highlight(RawHeader(s, v, name))

(***************************************************************************)
(* The exports. exportYAML hands the output of the yaml package's          *)
(* stringify to the same sink and is left out: the package is not part of  *)
(* the sources.                                                            *)
(***************************************************************************)
\* JSON's quoting of a string (no control character occurs in the model)
JsonQuote(s) ==
    <<"\"">> \o Cat([i \in 1..Len(s) |->
                        IF s[i] \in {"\"", "\\"} THEN <<"\\", s[i]>> ELSE <<s[i]>>],
                    1, Len(s)) \o <<"\"">>

JsonValue(v) == IF v.t = "string" THEN JsonQuote(v.s) ELSE ToStr(v)

\* JSON.stringify(values(), null, 2)
JsonStringify(o) ==
    IF Len(o) = 0 THEN <<"{", "}">>
    ELSE <<"{", NL>>
         \o Cat([i \in 1..Len(o) |->
                    (IF i = 1 THEN <<>> ELSE <<",", NL>>)
                        \o <<" ", " ">> \o JsonQuote(o[i].key) \o <<":", " ">>
                        \o JsonValue(o[i].val)], 1, Len(o))
         \o <<NL, "}">>

\* `${props.variantName || 'variant'}` followed by the extension
FileName(name, ext) == NameOrDefault(name) \o ext

\* triggerDownload(blob, filename): what the download sink is handed
triggerDownload(blob, filename) == [file |-> filename, payload |-> blob]

\* no download in this step
NoDownload == [file |-> <<>>, payload |-> <<>>]

(***************************************************************************)
(* The component                                                           *)
(***************************************************************************)
\* defaults[k] = s[k].default ?? null, for every key of the schema
Defaults(s) == [i \in 1..Len(s) |-> [key |-> s[i].key, val |-> OrNull(s[i].val.default)]]

\* what the <pre innerHTML={generateCHeader()}> shows; <<>> when it is not rendered
Render(s, v, name, show) == IF show THEN generateCHeader(s, v, name) ELSE <<>>

\* the array `lines` of the generateCHeader() call of a render; <<>> without a call
RenderLines(s, v, name, show) == IF show THEN HeaderLines(s, v, name) ELSE <<>>

(***************************************************************************)
(* Inputs                                                                  *)
(***************************************************************************)
MaxNum == 2
MaxKeys == 2
MaxStrLen == 3

KeyA == <<"A">>
KeyB == <<"_", "b", "1">>
KeyS == <<"S">>
\* not identifiers: another character, a leading digit, the empty name
BadKey == <<"b", "a", "d", "-", "k", "e", "y">>
DigitKey == <<"1", "a">>
EmptyKey == <<>>
\* an identifier no schema of the model describes
KeyZ == <<"Z">>

\* a text with every character that escapeHtml replaces
Markup == <<"<", "a", ">", "&", "\"", "'">>

Numbers == {Num(n) : n \in 0..MaxNum}
Booleans == {Bool(FALSE), Bool(TRUE)}
Strings == {Str(<<>>), Str(Markup)}

DefaultName == <<"v", "a", "r", "i", "a", "n", "t">>
MarkupName == <<"<", "b", ">", "'">>
KeywordName == <<"#", "e", "n", "d", "i", "f">>
Names == {<<>>, MarkupName, KeywordName}

\* what the input widget of a field of the given type passes to update()
Inputs(type) ==
    CASE type = "boolean" -> Booleans
      [] type = "number" -> Numbers
      [] type = "string" -> Strings
      [] OTHER -> {}

Entry(k, v) == [key |-> k, val |-> v]

Field(k, type, def) == Entry(k, Descriptor(type, def))

Fields ==
    { Field(KeyA, "number", Undefined), Field(KeyA, "number", Num(0)),
      Field(KeyA, "number", Num(1)), Field(KeyA, "enum", Str(<<"x">>)),
      Field(KeyB, "boolean", Undefined), Field(KeyB, "boolean", Bool(FALSE)),
      Field(KeyS, "string", Undefined), Field(KeyS, "string", Str(<<>>)),
      Field(KeyS, "string", Str(Markup)),
      Field(BadKey, "number", Num(5)) }

KeyOrder == <<KeyA, KeyB, KeyS, BadKey>>

Rank(k) == CHOOSE i \in 1..Len(KeyOrder) : KeyOrder[i] = k

SeqsUpTo(S, n) == UNION {[1..m -> S] : m \in 0..n}

\* the schemas of at most MaxKeys fields, their keys in the order of KeyOrder
AllSchemas ==
    {s \in SeqsUpTo(Fields, MaxKeys) :
        \A i \in 1..(Len(s) - 1) : Rank(s[i].key) < Rank(s[i + 1].key)}

\* the schemas the component is given, one after the other
FormSchemas ==
    { << Field(KeyA, "number", Num(1)), Field(KeyS, "string", Str(Markup)) >>,
      << Field(KeyA, "number", Undefined), Field(KeyB, "boolean", Bool(FALSE)) >>,
      << Field(KeyS, "string", Undefined), Field(BadKey, "number", Num(5)) >>,
      << Field(KeyB, "boolean", Undefined), Field(KeyA, "enum", Str(<<"x">>)) >>,
      << >> }

(***************************************************************************)
(* The component: ConfigForm under the variant name that App holds         *)
(***************************************************************************)
Step(op) == [op |-> op, prev |-> <<>>]

Init ==
    /\ schema \in FormSchemas
    /\ variantName = DefaultName
    /\ values = Defaults(schema)
    /\ showPreview = TRUE
    /\ lines = RenderLines(schema, values, variantName, showPreview)
    /\ preview = Render(schema, values, variantName, showPreview)
    /\ download = NoDownload
    /\ last = Step("init")

\* update(key, v), called by the input widget of a schema field
update(k, v) ==
    /\ values' = Set(values, k, v)
    /\ lines' = RenderLines(schema, values', variantName, showPreview)
    /\ preview' = Render(schema, values', variantName, showPreview)
    /\ download' = NoDownload
    /\ last' = Step("update")
    /\ UNCHANGED <<schema, variantName, showPreview>>

\* the effect keeping the values of the keys both schemas have
SchemaChange_Merge(s) ==
    /\ schema' = s
    /\ values' = [i \in 1..Len(s) |->
                    IF HasKey(values, s[i].key)
                    THEN Entry(s[i].key, Get(values, s[i].key))
                    ELSE Entry(s[i].key, OrNull(s[i].val.default))]
    /\ lines' = RenderLines(s, values', variantName, showPreview)
    /\ preview' = Render(s, values', variantName, showPreview)
    /\ download' = NoDownload
    /\ last' = [op |-> "schema", prev |-> values]
    /\ UNCHANGED <<variantName, showPreview>>

\* props.schema changes: the effect resets the values to the defaults
SchemaChange(s) ==
    /\ schema' = s
    /\ values' = Defaults(s)
    /\ lines' = RenderLines(s, values', variantName, showPreview)
    /\ preview' = Render(s, values', variantName, showPreview)
    /\ download' = NoDownload
    /\ last' = [op |-> "schema", prev |-> values]
    /\ UNCHANGED <<variantName, showPreview>>

\* props.onVariantNameChange, which is App's setVariantName
onVariantNameChange(n) ==
    /\ variantName' = n
    /\ lines' = RenderLines(schema, values, n, showPreview)
    /\ preview' = Render(schema, values, n, showPreview)
    /\ download' = NoDownload
    /\ last' = Step("name")
    /\ UNCHANGED <<schema, values, showPreview>>

\* setShowPreview, called by the checkbox
setShowPreview(b) ==
    /\ showPreview' = b
    /\ lines' = RenderLines(schema, values, variantName, b)
    /\ preview' = Render(schema, values, variantName, b)
    /\ download' = NoDownload
    /\ last' = Step("preview")
    /\ UNCHANGED <<schema, values, variantName>>

exportJSON ==
    /\ download' = triggerDownload(JsonStringify(values),
                                   FileName(variantName, <<".", "j", "s", "o", "n">>))
    /\ lines' = <<>>
    /\ last' = Step("exportJSON")
    /\ UNCHANGED <<schema, values, variantName, showPreview, preview>>

HeaderSuffix == <<"_", "f", "i", "n", "a", "l", "_", "c", "f", "g", ".", "h">>

exportCHeader ==
    /\ download' = triggerDownload(generateCHeader(schema, values, variantName),
                                   FileName(variantName, HeaderSuffix))
    /\ lines' = HeaderLines(schema, values, variantName)
    /\ last' = Step("exportCHeader")
    /\ UNCHANGED <<schema, values, variantName, showPreview, preview>>

Next ==
    \/ \E i \in 1..Len(schema) : \E v \in Inputs(schema[i].val.type) :
          update(schema[i].key, v)
    \/ \E s \in FormSchemas : SchemaChange(s)
    \/ \E n \in Names \cup {DefaultName} : onVariantNameChange(n)
    \/ \E b \in BOOLEAN : setShowPreview(b)
    \/ exportJSON
    \/ exportCHeader

Spec == Init /\ [][Next]_vars

(***************************************************************************)
(* The generator alone, applied to every schema and value mapping of at    *)
(* most MaxKeys keys: the keys of the mapping need not be the schema's.    *)
(***************************************************************************)
\* an entry under a key that is no identifier or that the schema does not describe
Foreign(s) ==
    {<<>>} \cup {<<e>> : e \in {x \in {Entry(KeyZ, Num(1)), Entry(BadKey, Num(5)),
                                       Entry(DigitKey, Num(1)), Entry(EmptyKey, Num(1))} :
                                ~HasKey(s, x.key)}}

\* the entry of one schema key: none, its default (or null) or an input of its type
Choices(e) ==
    {<<>>} \cup {<<Entry(e.key, x)>> : x \in Inputs(e.val.type) \cup {OrNull(e.val.default)}}

RECURSIVE Picks(_, _)
\* the mappings of the schema keys from the i-th on, in the order of the schema
Picks(s, i) ==
    IF i > Len(s) THEN {<<>>}
    ELSE {c \o m : c \in Choices(s[i]), m \in Picks(s, i + 1)}

Mappings(s) ==
    {m \in {p \o x : p \in Picks(s, 1), x \in Foreign(s)} : Len(m) <= MaxKeys}

GenInit ==
    /\ schema \in AllSchemas
    /\ values \in Mappings(schema)
    /\ variantName \in {<<>>, MarkupName}
    /\ showPreview = TRUE
    /\ lines = <<>>
    /\ preview = <<>>
    /\ download = NoDownload
    /\ last = Step("input")

\* one call of generateCHeader()
Generate ==
    /\ last.op = "input"
    /\ lines' = HeaderLines(schema, values, variantName)
    /\ preview' = generateCHeader(schema, values, variantName)
    /\ last' = Step("generate")
    /\ UNCHANGED <<schema, values, variantName, showPreview, download>>

GenNext == Generate

GenSpec == GenInit /\ [][GenNext]_vars

(***************************************************************************)
(* The generator on one string field, for every default and every value    *)
(* over backslash, double quote and a letter.                              *)
(***************************************************************************)
EscAlphabet == {"\\", "\"", "a"}

EscTexts == SeqsUpTo(EscAlphabet, MaxStrLen)

EncInit ==
    /\ \E d \in EscTexts : schema = <<Field(KeyS, "string", Str(d))>>
    /\ \E v \in EscTexts : values = <<Entry(KeyS, Str(v))>>
    /\ variantName = DefaultName
    /\ showPreview = TRUE
    /\ lines = <<>>
    /\ preview = <<>>
    /\ download = NoDownload
    /\ last = Step("input")

EncSpec == EncInit /\ [][GenNext]_vars

(***************************************************************************)
(* Properties                                                              *)
(***************************************************************************)
StartsWith(s, p) == At(s, 1, p)

\* a call of generateCHeader() has filled `lines`
Generated == lines # <<>>

Tier1Comment == <<"/", "/", " ", "V", "a", "r", "i", "a", "n", "t", "-", "s", "p", "e", "c", "i", "f", "i", "c", " ", "d", "e", "f", "i", "n", "e", "s", " ", "(", "h", "i", "g", "h", "e", "s", "t", " ", "p", "r", "i", "o", "r", "i", "t", "y", ")">>
Tier2Comment == <<"/", "/", " ", "C", "o", "m", "m", "o", "n", " ", "d", "e", "f", "a", "u", "l", "t", "s", " ", "(", "o", "n", "l", "y", " ", "a", "p", "p", "l", "i", "e", "d", " ", "i", "f", " ", "n", "o", "t", " ", "d", "e", "f", "i", "n", "e", "d", " ", "b", "y", " ", "v", "a", "r", "i", "a", "n", "t", ")">>

\* the lines emitted between the two tier comments
Tier1Region ==
    LET j == CHOOSE i \in 1..Len(lines) : lines[i] = Tier2Comment
    IN  SubSeq(lines, 6, j - 2)

\* the number of Tier 1 lines `#define k ...`
Tier1Count(k) ==
    Cardinality({i \in 1..Len(Tier1Region) :
                    StartsWith(Tier1Region[i], DefineLine(k, <<>>))})

\* a line defines or tests the macro k
Mentions(line, k) == StartsWith(line, DefineLine(k, <<>>)) \/ line = IfndefLine(k)

\* the guarded block of k with the given text as its default
HasBlock(k, text) ==
    \E i \in 1..(Len(lines) - 2) :
        /\ lines[i] = IfndefLine(k)
        /\ lines[i + 1] = DefineLine(k, text)
        /\ lines[i + 2] = EndifLine

SpanTags == {SpanComment, SpanKeyword, SpanString, SpanNumber, SpanClose}

Entities == { <<"&", "a", "m", "p", ";">>, <<"&", "l", "t", ";">>, <<"&", "g", "t", ";">>, <<"&", "q", "u", "o", "t", ";">>, <<"&", "#", "3", "9", ";">> }

\* the text p without the span tags that start at its < characters
StripTags(p) ==
    LET lts == Sorted({i \in 1..Len(p) : p[i] = "<"})
        k == Len(lts)
        tag(j) == CHOOSE t \in SpanTags : At(p, lts[j], t)
        from(j) == IF j = 1 THEN 1 ELSE lts[j - 1] + Len(tag(j - 1))
    IN  Cat([j \in 1..(k + 1) |->
                IF j <= k THEN SubSeq(p, from(j), lts[j] - 1)
                ELSE SubSeq(p, from(j), Len(p))], 1, k + 1)

\* C1: the payload that exportCHeader hands to the download sink is the raw
\* header text, the lines joined with newlines, without escaping or span markup.
C1_ExportIsRawHeader ==
    last.op = "exportCHeader" => download.payload = Join(lines)

\* C2: in the highlighted text every < starts a span tag of the highlighter, and
\* the text left when these tags are taken out has no <, >, double quote or
\* apostrophe and no & that does not start an entity: no character <, >, &, "
\* or ' of a name, value or default arrives unescaped.
C2_PreviewEscaped ==
    last.op = "generate" =>
        LET text == StripTags(preview)
        IN  /\ \A i \in 1..Len(preview) :
                  preview[i] = "<" => \E t \in SpanTags : At(preview, i, t)
            /\ \A i \in 1..Len(text) :
                  /\ text[i] \notin {"<", ">", "\"", "'"}
                  /\ text[i] = "&" => \E e \in Entities : At(text, i, e)

\* a string value with <, >, & and " has been highlighted, and its escaped form is shown
C2_Witness ==
    /\ last.op = "generate"
    /\ HasKey(schema, KeyS) /\ HasKey(values, KeyS)
    /\ Get(values, KeyS) = Str(Markup)
    /\ variantName = MarkupName
    /\ Contains(preview, <<"&", "l", "t", ";", "a", "&", "g", "t", ";", "&", "a", "m", "p", ";">>)
    /\ Contains(preview, <<"&", "a", "m", "p", ";", "l", "t", ";", "b", "&", "a", "m", "p", ";", "g", "t", ";", "&", "a", "m", "p", ";", "#">>)

\* the identifiers of C: not empty, no leading digit, letters, digits and _ only
IsIdentifier(k) ==
    /\ k # <<>>
    /\ k[1] \notin Digits
    /\ \A i \in 1..Len(k) : k[i] \in WordChars

Declared(e) == e.val.default # Undefined

\* C3: a key that is an identifier, has a declared default and has an entry in
\* the value mapping gets the line `#define k <encoded value>` before every
\* `#ifndef k` line, and the line after `#ifndef k` defines k as the encoded default.
C3_VariantBeforeDefault ==
    last.op = "generate" =>
        \A i \in 1..Len(schema) :
            LET k == schema[i].key
                type == schema[i].val.type
            IN  (IsIdentifier(k) /\ Declared(schema[i]) /\ HasKey(values, k)) =>
                    /\ \E b \in 1..Len(lines) : lines[b] = IfndefLine(k)
                    /\ \E a \in 1..Len(lines) :
                          /\ lines[a] = DefineLine(k, Encode(type, Get(values, k)))
                          /\ \A b \in 1..Len(lines) :
                                lines[b] = IfndefLine(k) =>
                                    /\ a < b
                                    /\ b < Len(lines)
                                    /\ lines[b + 1] =
                                          DefineLine(k, Encode(type, schema[i].val.default))

\* schema {A: number, default 1} with values {A: 2}: `#define A 2` stands before
\* `#ifndef A` / `#define A 1` / `#endif`
C3_Witness ==
    /\ last.op = "generate"
    /\ schema = <<Field(KeyA, "number", Num(1))>>
    /\ values = <<Entry(KeyA, Num(2))>>
    /\ lines[6] = <<"#", "d", "e", "f", "i", "n", "e", " ", "A", " ", "2">>
    /\ SubSeq(lines, 9, 11) = << <<"#", "i", "f", "n", "d", "e", "f", " ", "A">>, <<"#", "d", "e", "f", "i", "n", "e", " ", "A", " ", "1">>, <<"#", "e", "n", "d", "i", "f">> >>

\* C4: a key whose value is null gets no Tier 1 `#define` line.
C4_NullOmitted ==
    Generated =>
        \A i \in 1..Len(values) :
            values[i].val = Null =>
                \A j \in 1..Len(lines) :
                    ~StartsWith(lines[j], DefineLine(values[i].key, <<>>))

C6_DefaultBlocks ==
    last.op = "generate" =>
        \A i \in 1..Len(schema) :
            LET k == schema[i].key
            IN  IsIdentifier(k) =>
                    IF Declared(schema[i])
                    THEN HasBlock(k, Encode(schema[i].val.type, schema[i].val.default))
                    ELSE \A j \in 1..Len(lines) : lines[j] # IfndefLine(k)

\* boolean default false, the key absent from the mapping: `#define _b1 0` in its block
C6_Witness ==
    /\ last.op = "generate"
    /\ schema = <<Field(KeyB, "boolean", Bool(FALSE))>>
    /\ values = <<>>
    /\ SubSeq(lines, 8, 10) = << <<"#", "i", "f", "n", "d", "e", "f", " ", "_", "b", "1">>, <<"#", "d", "e", "f", "i", "n", "e", " ", "_", "b", "1", " ", "0">>, <<"#", "e", "n", "d", "i", "f">> >>

RECURSIVE Unescape(_)
\* the reverse of the escaping: \" to ", \\ to \
Unescape(s) ==
    IF s = <<>> THEN <<>>
    ELSE IF s[1] = "\\" /\ Len(s) >= 2 /\ s[2] \in {"\\", "\""}
         THEN <<s[2]>> \o Unescape(SubSeq(s, 3, Len(s)))
         ELSE <<s[1]>> \o Unescape(Tail(s))

RECURSIVE BackslashRun(_, _)
\* the length of the run of backslashes that ends at position i
BackslashRun(s, i) == IF i >= 1 /\ s[i] = "\\" THEN 1 + BackslashRun(s, i - 1) ELSE 0

\* line is `#define k "body"`, body unescapes to text, and every double quote of
\* body follows an odd run of backslashes
EncodesString(line, k, text) ==
    LET open == DefineLine(k, <<"\"">>)
        body == SubSeq(line, Len(open) + 1, Len(line) - 1)
    IN  /\ StartsWith(line, open)
        /\ Len(line) > Len(open)
        /\ line[Len(line)] = "\""
        /\ Unescape(body) = text
        /\ \A i \in 1..Len(body) : body[i] = "\"" => BackslashRun(body, i - 1) % 2 = 1

\* C7: the text between the outer quotes of the `#define` of a string value, and
\* of a string default, unescapes to the string, and none of its double quotes
\* is left unescaped.
C7_StringRoundTrip ==
    last.op = "generate" =>
        \A i \in 1..Len(schema) :
            LET k == schema[i].key
            IN  (schema[i].val.type = "string" /\ IsIdentifier(k)
                    /\ HasKey(values, k) /\ Declared(schema[i])) =>
                    /\ EncodesString(lines[6], k, ToStr(Get(values, k)))
                    /\ EncodesString(lines[10], k, ToStr(schema[i].val.default))

\* a value with a backslash and a double quote has been encoded
C7_Witness ==
    /\ last.op = "generate"
    /\ Get(values, KeyS) = Str(<<"\\", "\"", "a">>)
    /\ Get(schema, KeyS).default = Str(<<"\"", "\\">>)
    /\ lines[6] = <<"#", "d", "e", "f", "i", "n", "e", " ", "S", " ", "\"", "\\", "\\", "\\", "\"", "a", "\"">>
    /\ lines[10] = <<"#", "d", "e", "f", "i", "n", "e", " ", "S", " ", "\"", "\\", "\"", "\\", "\\", "\"">>

C9_KeywordsAtLineStart ==
    \A i \in 1..Len(preview) :
        (preview[i] = "<" /\ At(preview, i, SpanKeyword)) =>
            (i = 1 \/ preview[i - 1] = NL)

\* C10: every & of the highlighted text starts an entity of escapeHtml that no
\* span tag splits.
C10_EntitiesIntact ==
    \A i \in 1..Len(preview) :
        preview[i] = "&" => \E e \in Entities : At(preview, i, e)

====
